---------------------------- MODULE Spec2Model ----------------------------
(***************************************************************************)
(* Model of the forward dispatch layer of the fused dropout + residual +   *)
(* layer-norm extension (src/kernels/ln_api.cpp): the type encoder, the    *)
(* 64-bit dispatch key, the launcher registry lookup, the parameter        *)
(* validation of dropout_add_ln_fwd, and its two-phase (query / execute)   *)
(* launch with the locked advance of the shared Philox generator.          *)
(*                                                                         *)
(* 64-bit and 32-bit unsigned values are kept as little-endian sequences   *)
(* of 16-bit limbs, so that shifts and ors are computed bit for bit and    *)
(* bits shifted past the width are lost as they are in the machine.        *)
(***************************************************************************)
EXTENDS Integers, Sequences, FiniteSets, TLC

VARIABLES
    FWD_FUNCS,      \* the launcher registry: a set of [key, launcher] entries
    gen,            \* the shared CUDA generator: philox offset and mutex owner
    rngOrder,       \* history: calls in the order their counter advance was serialized
    pc,             \* per host thread: position inside dropout_add_ln_fwd
    args,           \* per host thread: the arguments of the call
    err,            \* per host thread: the error the call failed with, or NoError
    bufs,           \* per host thread: the at::Tensor locals x, dmask, z, mu, rsigma, workspace, barrier
    launcher,       \* per host thread: the local copy of the resolved launcher
    launch_params,  \* per host thread: LaunchParams<FwdParams>
    offsetRead,     \* per host thread: the local `offset` inside philox_cuda_state
    invocations,    \* per host thread: history of launcher invocations
    probe           \* the key builder applied to one drawn input (pure-function checks)

vars == <<FWD_FUNCS, gen, rngOrder, pc, args, err, bufs, launcher, launch_params,
          offsetRead, invocations, probe>>

-----------------------------------------------------------------------------
(* Bounds of the model *)

\* largest elts_per_thread a launcher reports in its query phase
MaxElts == 2
\* largest philox offset the generator holds before the calls start
MaxInitOffset == 1

-----------------------------------------------------------------------------
(* Unsigned machine words as little-endian sequences of 16-bit limbs *)

LimbBits == 16

RECURSIVE Pow2(_)
Pow2(n) == IF n = 0 THEN 1 ELSE 2 * Pow2(n - 1)

LimbBase == Pow2(LimbBits)

\* a non-negative integer below 2^31 as an unsigned word of `limbs` limbs
ToWord(n, limbs) ==
    [i \in 1..limbs |->
        IF i = 1 THEN n % LimbBase
        ELSE IF i = 2 THEN (n \div LimbBase) % LimbBase
        ELSE 0]

\* zero-extension (or truncation) of a word to `limbs` limbs
Extend(w, limbs) == [i \in 1..limbs |-> IF i <= Len(w) THEN w[i] ELSE 0]

RECURSIVE BitOr(_, _)
BitOr(a, b) ==
    IF a = 0 THEN b
    ELSE IF b = 0 THEN a
    ELSE (IF a % 2 = 1 \/ b % 2 = 1 THEN 1 ELSE 0) + 2 * BitOr(a \div 2, b \div 2)

\* operator | on two words of the same width
WordOr(v, w) == [i \in 1..Len(v) |-> BitOr(v[i], w[i])]

\* operator << on a word: bits shifted past the width are dropped
WordShl(w, n) ==
    LET q == n \div LimbBits
        r == n % LimbBits
        limb(i) == IF i >= 1 /\ i <= Len(w) THEN w[i] ELSE 0
    IN  [i \in 1..Len(w) |->
            ((limb(i - q) * Pow2(r)) % LimbBase)
            + (limb(i - q - 1) \div Pow2(LimbBits - r))]

-----------------------------------------------------------------------------
(* Type encoder and key builder *)

Supported == {"fp16", "bf16", "fp32"}

\* TypeId<T>::Value of ln.h: a 2-bit code per supported precision
TypeId(dtype) ==
    CASE dtype = "fp16" -> 0
      [] dtype = "bf16" -> 1
      [] dtype = "fp32" -> 2

\* get_type_id: a uint32_t, or the failure "Type not supported"
TypeSupported(dtype) == dtype \in Supported

get_type_id(dtype) == ToWord(TypeId(dtype), 2)

\* get_key with the residual code shifted into the input code's field
get_key_SharedField(wtype, itype, rtype, otype, ctype, hidden_size) ==
    LET type_key32 ==
            WordOr(WordOr(WordOr(WordOr(get_type_id(wtype),
                                        WordShl(get_type_id(itype), 2)),
                                 WordShl(get_type_id(rtype), 2)),
                          WordShl(get_type_id(otype), 6)),
                   WordShl(get_type_id(ctype), 8))
    IN  WordOr(WordShl(Extend(type_key32, 4), 32), hidden_size)

\* get_key(wtype, itype, rtype, otype, ctype, hidden_size): hidden_size is a uint64_t
get_key(wtype, itype, rtype, otype, ctype, hidden_size) ==
    LET type_key32 ==
            WordOr(WordOr(WordOr(WordOr(get_type_id(wtype),
                                        WordShl(get_type_id(itype), 2)),
                                 WordShl(get_type_id(rtype), 4)),
                          WordShl(get_type_id(otype), 6)),
                   WordShl(get_type_id(ctype), 8))
        type_key == Extend(type_key32, 4)
        launcher_key == WordOr(WordShl(type_key, 32), hidden_size)
    IN  launcher_key


-----------------------------------------------------------------------------
(* Tensors, optionals and the arguments of a call *)

\* fixed-point representation of the float 1.f (dropout_p and epsilon are
\* kept as integer multiples of 1/One)
One == 2

Tensor(dtype, sizes) ==
    [is_cuda |-> TRUE, is_contiguous |-> TRUE, sizes |-> sizes, dtype |-> dtype]

NullOpt == [has_value |-> FALSE]
Some(t) == [has_value |-> TRUE, value |-> t]

RECURSIVE Product(_)
Product(sizes) == IF sizes = <<>> THEN 1 ELSE Head(sizes) * Product(Tail(sizes))

numel(t) == Product(t.sizes)
dim(t) == Len(t.sizes)

\* lines 87-93: the five precisions of the call
itype(a) == a.x0.dtype
rtype(a) ==
    IF a.residual_.has_value THEN a.residual_.value.dtype
    ELSE IF a.residual_in_fp32 THEN "fp32" ELSE a.x0.dtype
wtype(a) == a.gamma.dtype
otype(a) == itype(a)
ctype(a) == "fp32"
mtype(a) == "uint8"

\* lines 103-110: sizes_vec, rows, cols, hidden_size
\* (x0.size(1) of a tensor with fewer than two dimensions raises at line 103;
\* the value -1 stands for "no value" and is never used past that failure)
size(t, d) == IF d < dim(t) THEN t.sizes[d + 1] ELSE -1
sizes_vec(a) ==
    << IF ~a.x0_subset_.has_value THEN size(a.x0, 0) ELSE size(a.x0_subset_.value, 0),
       size(a.x0, 1) >>
rows(a) == sizes_vec(a)[1]
cols(a) == sizes_vec(a)[2]
hidden_size(a) == numel(a.gamma)

-----------------------------------------------------------------------------
(* Lines 96-160: the checks made before anything is allocated, in order *)

NoError == [kind |-> "none", line |-> 0]
Failure(kind, line) == [kind |-> kind, line |-> line]

Check(line, ok) == [line |-> line, kind |-> "precondition", ok |-> ok]

MaxHidden == 8192
HiddenMultiple == 8

\* line 159
HiddenSizeOk(h) == (h % HiddenMultiple = 0) /\ (h <= MaxHidden)

\* line 160
EpsilonOk(eps) == eps >= 0

BetaChecks(a) ==
    LET has == a.beta_.has_value
        beta == a.beta_.value
    IN  << Check(115, has => beta.dtype = wtype(a)),
           Check(116, has => beta.is_cuda),
           Check(117, has => beta.is_contiguous),
           Check(118, has => beta.sizes = a.gamma.sizes) >>

ResidualChecks(a) ==
    LET has == a.residual_.has_value
        residual == a.residual_.value
    IN  << Check(123, has => residual.is_cuda),
           Check(124, has => residual.is_contiguous),
           Check(125, has => residual.sizes = sizes_vec(a)) >>

RowscaleChecks(a) ==
    LET has == a.rowscale_.has_value
        rowscale == a.rowscale_.value
    IN  << Check(130, has => rowscale.is_cuda),
           Check(131, has => rowscale.is_contiguous),
           Check(132, has => rowscale.sizes = <<rows(a)>>),
           Check(133, has => rowscale.dtype = itype(a)) >>

ColscaleChecks(a) ==
    LET has == a.colscale_.has_value
        colscale == a.colscale_.value
    IN  << Check(138, has => colscale.is_cuda),
           Check(139, has => colscale.is_contiguous),
           Check(140, has => colscale.sizes = <<cols(a)>>),
           Check(141, has => colscale.dtype = wtype(a)) >>

\* lines 144-157: the z_subset checks are made only inside the x0_subset branch
SubsetChecks(a) ==
    LET has == a.x0_subset_.has_value
        x0_subset == a.x0_subset_.value
        hasz == has /\ a.z_subset_.has_value
        z_subset == a.z_subset_.value
    IN  << Check(146, has => x0_subset.is_cuda),
           Check(147, has => x0_subset.is_contiguous),
           Check(148, has => x0_subset.sizes = <<rows(a)>>),
           Check(149, has => x0_subset.dtype = "int32"),
           Check(151, has => a.z_subset_.has_value),
           Check(153, hasz => z_subset.is_cuda),
           Check(154, hasz => z_subset.is_contiguous),
           Check(155, hasz => z_subset.sizes = <<rows(a)>>),
           Check(156, hasz => z_subset.dtype = "int32") >>

\* the checks of lines 96-160 in program order; x0.size(1) at line 103 raises on
\* a tensor of fewer than two dimensions (a violated shape contract as well)
Checks(a) ==
    LET twoD == dim(a.x0) >= 2
    IN  << Check(96, a.x0.is_cuda),
           Check(97, a.gamma.is_cuda),
           Check(99, a.x0.is_contiguous),
           Check(103, twoD),
           Check(105, dim(a.x0) = 2),
           Check(106, twoD => Len(sizes_vec(a)) = 2),
           Check(111, twoD => hidden_size(a) = cols(a)) >>
        \o BetaChecks(a) \o ResidualChecks(a) \o RowscaleChecks(a)
        \o ColscaleChecks(a) \o SubsetChecks(a)
        \o << Check(159, HiddenSizeOk(hidden_size(a))),
              Check(160, EpsilonOk(a.epsilon)) >>

\* the first check that fails, as the error the call raises, or NoError
FirstFailure(checks) ==
    LET failing == {i \in 1..Len(checks) : ~checks[i].ok}
    IN  IF failing = {} THEN NoError
        ELSE LET i == CHOOSE j \in failing : \A k \in failing : j <= k
             IN  Failure(checks[i].kind, checks[i].line)

ValidationError(a) == FirstFailure(Checks(a))


-----------------------------------------------------------------------------
(* Lines 9-19, 31, 60-67, 193-196: the registry and the launcher lookup *)

\* lines 9-19: the supported combinations (input, residual, compute, weights, output)
SupportedCombos ==
    { <<"fp32", "fp32", "fp32", "fp32", "fp32">>,
      <<"fp16", "fp32", "fp32", "fp32", "fp16">>,
      <<"fp16", "fp16", "fp32", "fp32", "fp16">>,
      <<"bf16", "fp32", "fp32", "fp32", "bf16">>,
      <<"bf16", "bf16", "fp32", "fp32", "bf16">>,
      <<"fp16", "fp16", "fp32", "fp16", "fp16">>,
      <<"bf16", "bf16", "fp32", "bf16", "bf16">> }

\* the hidden-size buckets a launcher is registered for
RegisteredHidden ==
    {256 * k : k \in 1..6} \cup {2048, 2560, 3072} \cup {1024 * k : k \in 4..8}

\* the name of one registered launcher: the template instance it was registered for
LauncherName(w, i, r, o, c, h) ==
    [wtype |-> w, itype |-> i, rtype |-> r, otype |-> o, ctype |-> c, hidden_size |-> h]

NoLauncher == [hidden_size |-> -1]

\* the registrations made at process start: each binds get_key(types, bucket) to its launcher
Registrations ==
    { [key |-> get_key(c[4], c[1], c[2], c[5], c[3], ToWord(h, 4)),
       launcher |-> LauncherName(c[4], c[1], c[2], c[5], c[3], h)] :
      c \in SupportedCombos, h \in RegisteredHidden }

\* FWD_FUNCS.find(key): the entries stored under exactly this key
Find(registry, key) == {e \in registry : e.key = key}

\* lines 60-67: hidden_size is a uint32_t, widened to uint64_t for get_key;
\* NoLauncher stands for the failure raised at line 65
get_fwd_launcher(registry, w, i, r, o, c, hidden) ==
    LET iter == Find(registry, get_key(w, i, r, o, c, Extend(ToWord(hidden, 2), 4)))
    IN  IF iter # {} THEN (CHOOSE e \in iter : TRUE).launcher ELSE NoLauncher

\* line 193
round_multiple(x, m) == ((x + m - 1) \div m) * m

\* the granularity without its two larger steps
multiple_Always256(hidden) == 256

\* line 194
multiple(hidden) ==
    IF hidden <= 1536 THEN 256 ELSE IF hidden <= 3072 THEN 512 ELSE 1024

\* the decision without the row-gather term
save_x_NoGather(a) ==
    \/ a.residual_.has_value
    \/ a.dropout_p > 0
    \/ a.rowscale_.has_value
    \/ a.colscale_.has_value
    \/ itype(a) # rtype(a)

\* line 168
save_x(a) ==
    \/ a.residual_.has_value
    \/ a.dropout_p > 0
    \/ a.rowscale_.has_value
    \/ a.colscale_.has_value
    \/ a.x0_subset_.has_value
    \/ itype(a) # rtype(a)

\* line 182
DropoutOk(p) == p < One

\* the test with >= for >
DropoutActive_NonNegative(p) == p >= 0

\* lines 172, 204, 221
DropoutActive(p) == p > 0


-----------------------------------------------------------------------------
(* The calls the model makes: well-formed calls over the precisions, hidden *)
(* sizes and optional arguments, calls with out-of-range numbers, and calls *)
(* with one malformed tensor                                                *)

\* rows of x0, and rows selected by x0_subset
NumRows == 2
SubsetRows == 1

MakeArgs(it, wt, res, rfp32, h, beta, rowscale, colscale, sub, p, eps) ==
    LET gather == sub \in {"both", "x0_only"}
        scatter == sub \in {"both", "z_only"}
        r == IF gather THEN SubsetRows ELSE NumRows
    IN  [ x0 |-> Tensor(it, <<NumRows, h>>),
          residual_ |-> IF res = "none" THEN NullOpt ELSE Some(Tensor(res, <<r, h>>)),
          gamma |-> Tensor(wt, <<h>>),
          beta_ |-> IF beta THEN Some(Tensor(wt, <<h>>)) ELSE NullOpt,
          rowscale_ |-> IF rowscale THEN Some(Tensor(it, <<r>>)) ELSE NullOpt,
          colscale_ |-> IF colscale THEN Some(Tensor(wt, <<h>>)) ELSE NullOpt,
          x0_subset_ |-> IF gather THEN Some(Tensor("int32", <<SubsetRows>>)) ELSE NullOpt,
          z_subset_ |-> IF scatter THEN Some(Tensor("int32", <<r>>)) ELSE NullOpt,
          dropout_p |-> p,
          epsilon |-> eps,
          z_numrows |-> NumRows,
          residual_in_fp32 |-> rfp32 ]

HiddenValid == {8, 256, 1536, 1544, 3072, 3080, 8192}
HiddenAny == {0, 8, 12, 8192, 8193, 8200}
SubsetChoices == {"none", "both", "x0_only", "z_only"}

\* every precision combination and hidden size, no optional argument but the residual
DispatchArgs ==
    { MakeArgs(it, wt, res[1], res[2], h, FALSE, FALSE, FALSE, "none", 0, 0) :
        it \in Supported, wt \in Supported,
        res \in ({"none"} \X BOOLEAN) \cup (Supported \X {FALSE}),
        h \in HiddenValid }

\* every combination of the optional arguments and of dropout on and off
OptionArgs ==
    { MakeArgs(it, "fp32", res[1], res[2], 1024, FALSE, o[1], o[2], sub, p, 0) :
        it \in {"fp16", "fp32"},
        res \in {<<"none", FALSE>>, <<"none", TRUE>>, <<"fp32", FALSE>>},
        o \in BOOLEAN \X BOOLEAN,
        sub \in SubsetChoices,
        p \in {0, One - 1} }

\* hidden sizes, dropout probabilities and epsilons in and out of range
NumericArgs ==
    { MakeArgs("fp32", "fp32", "none", FALSE, h, FALSE, FALSE, FALSE, "none", p, eps) :
        h \in HiddenAny, p \in {-1, 0, One - 1, One, One + 1}, eps \in {-1, 0, 1} }

Break(t, defect) ==
    CASE defect = "not_cuda" -> [t EXCEPT !.is_cuda = FALSE]
      [] defect = "not_contiguous" -> [t EXCEPT !.is_contiguous = FALSE]
      [] defect = "one_dim" -> [t EXCEPT !.sizes = Tail(@)]
      [] defect = "extra_dim" -> [t EXCEPT !.sizes = Append(@, 1)]
      [] defect = "longer" -> [t EXCEPT !.sizes[1] = @ + 8]
      [] defect = "bad_dtype" -> [t EXCEPT !.dtype = "fp64"]

BreakOpt(o, defect) == IF o.has_value THEN Some(Break(o.value, defect)) ELSE o

Defects ==
    {"not_cuda", "not_contiguous", "one_dim", "extra_dim", "longer", "bad_dtype"}

ArgNames ==
    {"x0", "gamma", "beta_", "residual_", "rowscale_", "colscale_", "x0_subset_", "z_subset_"}

Mutate(a, name, defect) ==
    CASE name = "x0" -> [a EXCEPT !.x0 = Break(@, defect)]
      [] name = "gamma" -> [a EXCEPT !.gamma = Break(@, defect)]
      [] name = "beta_" -> [a EXCEPT !.beta_ = BreakOpt(@, defect)]
      [] name = "residual_" -> [a EXCEPT !.residual_ = BreakOpt(@, defect)]
      [] name = "rowscale_" -> [a EXCEPT !.rowscale_ = BreakOpt(@, defect)]
      [] name = "colscale_" -> [a EXCEPT !.colscale_ = BreakOpt(@, defect)]
      [] name = "x0_subset_" -> [a EXCEPT !.x0_subset_ = BreakOpt(@, defect)]
      [] name = "z_subset_" -> [a EXCEPT !.z_subset_ = BreakOpt(@, defect)]

DefectBases ==
    { MakeArgs("fp16", "fp32", "fp32", FALSE, 1024, TRUE, TRUE, TRUE, "both", One - 1, 0),
      MakeArgs("fp16", "fp32", "fp32", FALSE, 1024, FALSE, FALSE, FALSE, "none", 0, 0),
      MakeArgs("fp32", "fp32", "none", FALSE, 1024, FALSE, FALSE, FALSE, "none", One, -1) }

\* one tensor of a call malformed in one way
DefectArgs ==
    { Mutate(b, name, defect) : b \in DefectBases, name \in ArgNames, defect \in Defects }

ArgSet == DispatchArgs \cup OptionArgs \cup NumericArgs \cup DefectArgs

\* the calls made concurrently: well-formed, dropout on or off
ConcurrentArgs ==
    { MakeArgs("fp32", "fp32", "none", FALSE, 1024, FALSE, FALSE, FALSE, "none", p, 0) :
        p \in {0, One - 1} }


-----------------------------------------------------------------------------
(* The state of one call *)

NoArgs == [dropout_p |-> 0]

\* a default-constructed at::Tensor
Undefined == [defined |-> FALSE]
\* torch::empty / torch::zeros
Empty(sizes, dtype) == [defined |-> TRUE, sizes |-> sizes, dtype |-> dtype, zeroed |-> FALSE]
Zeros(sizes, dtype) == [defined |-> TRUE, sizes |-> sizes, dtype |-> dtype, zeroed |-> TRUE]

NoBufs ==
    [x |-> Undefined, dmask |-> Undefined, z |-> Undefined, mu |-> Undefined,
     rsigma |-> Undefined, workspace |-> Undefined, barrier |-> Undefined]

\* the data_ptr of an argument or of a local tensor, by its name
Null == "nullptr"
PtrIf(cond, name) == IF cond THEN name ELSE Null

NoPhilox == [seed |-> "unset", offset |-> 0]

\* a default-constructed LaunchParams<FwdParams>
NewLaunchParams ==
    [ elts_per_thread |-> 0, workspace_bytes |-> 0, barrier_size |-> 0,
      params |->
        [ rows |-> 0, cols |-> 0,
          x0 |-> Null, x |-> Null, dmask |-> Null, mu |-> Null, rs |-> Null,
          gamma |-> Null, beta |-> Null, z |-> Null,
          residual |-> Null, rowscale |-> Null, colscale |-> Null,
          x0_subset |-> Null, z_subset |-> Null,
          workspace |-> Null, barrier |-> Null,
          epsilon |-> 0, dropout_keep_p |-> 0,
          philox_args |-> NoPhilox ] ]

\* what the launchers may report in their query phase
BarrierReports == {0, 2}
WorkspaceReports == {0, 16}
EltsReports == 1..MaxElts

\* the host threads that call dropout_add_ln_fwd
Threads == {1, 2}

Init ==
    /\ FWD_FUNCS = Registrations
    /\ gen \in [seed : {"seed"}, offset : 0..MaxInitOffset, mutex : {0}]
    /\ rngOrder = <<>>
    /\ pc = [t \in Threads |-> "idle"]
    /\ args = [t \in Threads |-> NoArgs]
    /\ err = [t \in Threads |-> NoError]
    /\ bufs = [t \in Threads |-> NoBufs]
    /\ launcher = [t \in Threads |-> NoLauncher]
    /\ launch_params = [t \in Threads |-> NewLaunchParams]
    /\ offsetRead = [t \in Threads |-> 0]
    /\ invocations = [t \in Threads |-> <<>>]
    /\ probe = <<>>

\* a TORCH_CHECK fails: the call ends with the error, before its next statement
Raise(t, e) ==
    /\ pc' = [pc EXCEPT ![t] = "failed"]
    /\ err' = [err EXCEPT ![t] = e]

Goto(t, label) ==
    /\ pc' = [pc EXCEPT ![t] = label]
    /\ UNCHANGED err

-----------------------------------------------------------------------------
(* dropout_add_ln_fwd, statement group by statement group *)

\* a host thread enters dropout_add_ln_fwd with the arguments a
Call(t, a) ==
    /\ pc[t] = "idle"
    /\ args' = [args EXCEPT ![t] = a]
    /\ Goto(t, "validate")
    /\ UNCHANGED <<FWD_FUNCS, gen, rngOrder, bufs, launcher, launch_params,
                   offsetRead, invocations, probe>>

\* the allocations of lines 170-176 hoisted above the checks
Validate_AllocFirst(t) ==
    /\ pc[t] = "validate"
    /\ LET e == ValidationError(args[t])
       IN  IF e = NoError THEN Goto(t, "allocate") ELSE Raise(t, e)
    /\ bufs' = [bufs EXCEPT ![t].mu = Empty(<<size(args[t].x0, 0)>>, "fp32"),
                            ![t].rsigma = Empty(<<size(args[t].x0, 0)>>, "fp32")]
    /\ UNCHANGED <<FWD_FUNCS, gen, rngOrder, args, launcher, launch_params,
                   offsetRead, invocations, probe>>

\* lines 87-160
Validate(t) ==
    /\ pc[t] = "validate"
    /\ LET e == ValidationError(args[t])
       IN  IF e = NoError THEN Goto(t, "allocate") ELSE Raise(t, e)
    /\ UNCHANGED <<FWD_FUNCS, gen, rngOrder, args, bufs, launcher, launch_params,
                   offsetRead, invocations, probe>>

\* lines 164-176
Allocate(t) ==
    /\ pc[t] = "allocate"
    /\ LET a == args[t]
           sizes == sizes_vec(a)
       IN  bufs' = [bufs EXCEPT ![t] =
              [@ EXCEPT
                 !.x = IF save_x(a) THEN Empty(sizes, rtype(a)) ELSE Undefined,
                 !.dmask = IF DropoutActive(a.dropout_p)
                           THEN Empty(a.x0.sizes, mtype(a)) ELSE Undefined,
                 !.z = Empty(IF a.z_subset_.has_value
                             THEN <<a.z_numrows, cols(a)>> ELSE sizes, otype(a)),
                 !.mu = Empty(<<rows(a)>>, ctype(a)),
                 !.rsigma = Empty(<<rows(a)>>, ctype(a))]]
    /\ Goto(t, "build")
    /\ UNCHANGED <<FWD_FUNCS, gen, rngOrder, args, launcher, launch_params,
                   offsetRead, invocations, probe>>

\* lines 178-188
BuildParams(t) ==
    /\ pc[t] = "build"
    /\ LET a == args[t]
       IN  IF DropoutOk(a.dropout_p)
           THEN /\ launch_params' = [launch_params EXCEPT ![t].params =
                     [@ EXCEPT
                        !.dropout_keep_p = One - a.dropout_p,
                        !.residual = PtrIf(a.residual_.has_value, "residual"),
                        !.rowscale = PtrIf(a.rowscale_.has_value, "rowscale"),
                        !.colscale = PtrIf(a.colscale_.has_value, "colscale"),
                        !.x0_subset = PtrIf(a.x0_subset_.has_value, "x0_subset"),
                        !.z_subset = PtrIf(a.z_subset_.has_value, "z_subset")]]
                /\ Goto(t, "resolve")
           ELSE /\ Raise(t, Failure("precondition", 182))
                /\ UNCHANGED launch_params
    /\ UNCHANGED <<FWD_FUNCS, gen, rngOrder, args, bufs, launcher,
                   offsetRead, invocations, probe>>

\* lines 190-196: get_key raises "Type not supported" (line 43) before the lookup
Resolve(t) ==
    /\ pc[t] = "resolve"
    /\ LET a == args[t]
           types == <<wtype(a), itype(a), rtype(a), otype(a), ctype(a)>>
           h == hidden_size(a)
           found == get_fwd_launcher(FWD_FUNCS, types[1], types[2], types[3], types[4],
                                     types[5], round_multiple(h, multiple(h)))
       IN  IF \E i \in 1..5 : ~TypeSupported(types[i])
           THEN Raise(t, Failure("unsupported_type", 43)) /\ UNCHANGED launcher
           ELSE IF found = NoLauncher
           THEN Raise(t, Failure("unsupported_config", 65)) /\ UNCHANGED launcher
           ELSE Goto(t, "set_params") /\ launcher' = [launcher EXCEPT ![t] = found]
    /\ UNCHANGED <<FWD_FUNCS, gen, rngOrder, args, bufs, launch_params,
                   offsetRead, invocations, probe>>

\* lines 198-214
SetParams(t) ==
    /\ pc[t] = "set_params"
    /\ LET a == args[t]
       IN  launch_params' = [launch_params EXCEPT ![t].params =
              [@ EXCEPT
                 !.rows = rows(a),
                 !.cols = cols(a),
                 !.x0 = "x0",
                 !.x = PtrIf(save_x(a), "x"),
                 !.dmask = PtrIf(DropoutActive(a.dropout_p), "dmask"),
                 !.mu = "mu",
                 !.rs = "rsigma",
                 !.gamma = "gamma",
                 !.beta = PtrIf(a.beta_.has_value, "beta"),
                 !.z = "z",
                 !.epsilon = a.epsilon]]
    /\ Goto(t, "query")
    /\ UNCHANGED <<FWD_FUNCS, gen, rngOrder, args, bufs, launcher,
                   offsetRead, invocations, probe>>

\* one invocation launcher(launch_params, configure_params), as the history keeps it
Invocation(t, configure_params) ==
    [launcher |-> launcher[t], configure_params |-> configure_params,
     launch_params |-> launch_params[t], bufs |-> bufs[t]]

\* line 217: the query phase writes the three requirements into launch_params
Query(t) ==
    /\ pc[t] = "query"
    /\ \E elts \in EltsReports, barrier \in BarrierReports, bytes \in WorkspaceReports :
          launch_params' = [launch_params EXCEPT
                               ![t].elts_per_thread = elts,
                               ![t].barrier_size = barrier,
                               ![t].workspace_bytes = bytes]
    /\ invocations' = [invocations EXCEPT ![t] = Append(@, Invocation(t, TRUE))]
    /\ Goto(t, IF DropoutActive(args[t].dropout_p) THEN "lock" ELSE "scratch")
    /\ UNCHANGED <<FWD_FUNCS, gen, rngOrder, args, bufs, launcher, offsetRead, probe>>


-----------------------------------------------------------------------------
(* Lines 221-231: the generator's counter is advanced under its mutex *)

\* the advance made without holding the mutex
MutexFree_NoExclusion(g) == TRUE

\* line 228, std::lock_guard<std::mutex> lock(gen->mutex_): blocks while another
\* thread owns the mutex
MutexFree(g) == g.mutex = 0

RngLock(t) ==
    /\ pc[t] = "lock"
    /\ MutexFree(gen)
    /\ gen' = [gen EXCEPT !.mutex = t]
    /\ rngOrder' = Append(rngOrder, t)
    /\ Goto(t, "philox_read")
    /\ UNCHANGED <<FWD_FUNCS, args, bufs, launcher, launch_params, offsetRead,
                   invocations, probe>>

\* philox_cuda_state(increment), first half: offset = philox_offset_per_thread_
PhiloxRead(t) ==
    /\ pc[t] = "philox_read"
    /\ offsetRead' = [offsetRead EXCEPT ![t] = gen.offset]
    /\ Goto(t, "philox_advance")
    /\ UNCHANGED <<FWD_FUNCS, gen, rngOrder, args, bufs, launcher, launch_params,
                   invocations, probe>>

\* line 224
counter_offset(lp) == lp.elts_per_thread

\* philox_cuda_state(increment), second half: philox_offset_per_thread_ += increment,
\* and the (seed, offset) pair is returned into params.philox_args
PhiloxAdvance(t) ==
    /\ pc[t] = "philox_advance"
    /\ gen' = [gen EXCEPT !.offset = @ + counter_offset(launch_params[t])]
    /\ launch_params' = [launch_params EXCEPT ![t].params.philox_args =
                            [seed |-> gen.seed, offset |-> offsetRead[t]]]
    /\ Goto(t, "unlock")
    /\ UNCHANGED <<FWD_FUNCS, rngOrder, args, bufs, launcher, offsetRead,
                   invocations, probe>>

\* the lock_guard leaves its scope
RngUnlock(t) ==
    /\ pc[t] = "unlock"
    /\ gen' = [gen EXCEPT !.mutex = IF @ = t THEN 0 ELSE @]
    /\ Goto(t, "scratch")
    /\ UNCHANGED <<FWD_FUNCS, rngOrder, args, bufs, launcher, launch_params,
                   offsetRead, invocations, probe>>

-----------------------------------------------------------------------------
(* Lines 233-244 *)

\* the test asking for both requirements to be positive
NeedsScratch_Both(lp) == lp.barrier_size > 0 /\ lp.workspace_bytes > 0

\* line 233
NeedsScratch(lp) == lp.barrier_size > 0

\* lines 233-239
AllocScratch(t) ==
    /\ pc[t] = "scratch"
    /\ LET lp == launch_params[t]
       IN  IF NeedsScratch(lp)
           THEN /\ bufs' = [bufs EXCEPT
                              ![t].barrier = Zeros(<<lp.barrier_size>>, "int32"),
                              ![t].workspace = Empty(<<lp.workspace_bytes>>, "int8")]
                /\ launch_params' = [launch_params EXCEPT
                              ![t].params.workspace = "workspace",
                              ![t].params.barrier = "barrier"]
           ELSE UNCHANGED <<bufs, launch_params>>
    /\ Goto(t, "execute")
    /\ UNCHANGED <<FWD_FUNCS, gen, rngOrder, args, launcher, offsetRead,
                   invocations, probe>>

\* the second invocation made with the query flag again
Execute_AsQuery(t) ==
    /\ pc[t] = "execute"
    /\ invocations' = [invocations EXCEPT ![t] = Append(@, Invocation(t, TRUE))]
    /\ Goto(t, "return")
    /\ UNCHANGED <<FWD_FUNCS, gen, rngOrder, args, bufs, launcher, launch_params,
                   offsetRead, probe>>

\* line 242
Execute(t) ==
    /\ pc[t] = "execute"
    /\ invocations' = [invocations EXCEPT ![t] = Append(@, Invocation(t, FALSE))]
    /\ Goto(t, "return")
    /\ UNCHANGED <<FWD_FUNCS, gen, rngOrder, args, bufs, launcher, launch_params,
                   offsetRead, probe>>

\* line 244: { z, x, dmask, mu, rsigma }
Returned(t) == <<bufs[t].z, bufs[t].x, bufs[t].dmask, bufs[t].mu, bufs[t].rsigma>>

Return(t) ==
    /\ pc[t] = "return"
    /\ Goto(t, "done")
    /\ UNCHANGED <<FWD_FUNCS, gen, rngOrder, args, bufs, launcher, launch_params,
                   offsetRead, invocations, probe>>

Step(t) ==
    \/ Validate(t)
    \/ Allocate(t)
    \/ BuildParams(t)
    \/ Resolve(t)
    \/ SetParams(t)
    \/ Query(t)
    \/ RngLock(t)
    \/ PhiloxRead(t)
    \/ PhiloxAdvance(t)
    \/ RngUnlock(t)
    \/ AllocScratch(t)
    \/ Execute(t)
    \/ Return(t)

\* one host thread makes one call, over all the calls of ArgSet
Next ==
    \/ \E a \in ArgSet : Call(1, a)
    \/ Step(1)

Spec == Init /\ [][Next]_vars

\* both host threads make one call each, sharing the generator
NextConcurrent ==
    \/ \E t \in Threads, a \in ConcurrentArgs : Call(t, a)
    \/ \E t \in Threads : Step(t)

SpecConcurrent == Init /\ [][NextConcurrent]_vars


-----------------------------------------------------------------------------
(* The key builder on its own: get_key applied to inputs drawn over the      *)
(* three precisions in each role and hidden sizes across the 32-bit range    *)

\* hidden sizes below 2^32 as 64-bit words: 0, 1, 256, 65535, 65536, 2^32 - 1
KeyHidden ==
    << <<0, 0, 0, 0>>, <<1, 0, 0, 0>>, <<256, 0, 0, 0>>, <<LimbBase - 1, 0, 0, 0>>,
       <<0, 1, 0, 0>>, <<LimbBase - 1, LimbBase - 1, 0, 0>> >>

Precisions == <<"fp16", "bf16", "fp32">>

\* the inputs are numbered, so that a table over them is indexed by an interval:
\* input n has the precision of role i at base-3 digit i of n, and the hidden
\* size KeyHidden[n \div 3^5 + 1]
NumKeyInputs == 243 * Len(KeyHidden)
KeyIndices == 0..(NumKeyInputs - 1)

RECURSIVE Pow3(_)
Pow3(n) == IF n = 0 THEN 1 ELSE 3 * Pow3(n - 1)

KeyInput(n) ==
    [types |-> [i \in 1..5 |-> Precisions[((n \div Pow3(i - 1)) % 3) + 1]],
     hidden_size |-> KeyHidden[(n \div 243) + 1]]

KeyOf(in) ==
    get_key(in.types[1], in.types[2], in.types[3], in.types[4], in.types[5],
            in.hidden_size)

ProbeKey ==
    /\ probe = <<>>
    /\ \E n \in KeyIndices : probe' = <<n, KeyOf(KeyInput(n))>>
    /\ UNCHANGED <<FWD_FUNCS, gen, rngOrder, pc, args, err, bufs, launcher,
                   launch_params, offsetRead, invocations>>

NextKey == ProbeKey

SpecKey == Init /\ [][NextKey]_vars

-----------------------------------------------------------------------------
(* Claims *)

\* get_key over all the numbered inputs
KeyTable == [n \in KeyIndices |-> KeyOf(KeyInput(n))]

\* the five 2-bit codes as the claim lays them out from bit 32 upward: weight
\* lowest, then input, residual, output, compute
PackedCodes(types) ==
    TypeId(types[1]) + 4 * TypeId(types[2]) + 16 * TypeId(types[3])
    + 64 * TypeId(types[4]) + 256 * TypeId(types[5])

\* C8: get_key is injective and deterministic on its documented domain: the key
\* of the probed input equals the key of another input of the domain exactly when
\* the two inputs agree in all six components; the hidden size sits in bits 0-31
\* and the five 2-bit type codes in their own fields from bit 32 upward.
C8_KeyInjective ==
    probe # <<>> =>
        LET in == KeyInput(probe[1])
            key == probe[2]
        IN  /\ \A m \in KeyIndices : (KeyTable[m] = key) <=> (KeyInput(m) = in)
            /\ key[1] = in.hidden_size[1]
            /\ key[2] = in.hidden_size[2]
            /\ key[3] = PackedCodes(in.types)
            /\ key[4] = 0

\* C8 witness: an input with every bit of the low 32 bits set in its hidden size
\* and a non-zero code in every role has been given its key
C8_Witness ==
    /\ probe # <<>>
    /\ KeyInput(probe[1]).hidden_size = <<LimbBase - 1, LimbBase - 1, 0, 0>>
    /\ \A i \in 1..5 : KeyInput(probe[1]).types[i] = "fp32"


\* positions of a call that has its launcher (the lookup of line 196 succeeded)
PastResolve ==
    {"set_params", "query", "lock", "philox_read", "philox_advance", "unlock",
     "scratch", "execute", "return", "done"}

\* positions of a call whose params are all set (line 214 passed)
PastSetParams == PastResolve \ {"set_params"}

\* the fields of the payload that are set before the query phase
Payload(lp) ==
    [f \in {"rows", "cols", "x0", "x", "dmask", "mu", "rs", "gamma", "beta", "z",
            "residual", "rowscale", "colscale", "x0_subset", "z_subset",
            "epsilon", "dropout_keep_p"} |-> lp.params[f]]

\* C1: a call that returns normally has invoked its resolved launcher exactly
\* twice, first with the query flag and then with the execute flag, both times the
\* launcher the lookup returned on the call's own launch_params (same payload, the
\* query's reports present at execute); at no point is there an execute without a
\* query before it, and nothing is invoked after the execute.
C1_QueryThenExecute ==
    \A t \in Threads :
        LET inv == invocations[t]
        IN  /\ Len(inv) <= 2
            /\ Len(inv) >= 1 =>
                  /\ inv[1].configure_params = TRUE
                  /\ inv[1].launcher = launcher[t]
                  /\ launcher[t] # NoLauncher
            /\ Len(inv) = 2 =>
                  /\ inv[2].configure_params = FALSE
                  /\ inv[2].launcher = inv[1].launcher
                  /\ Payload(inv[2].launch_params) = Payload(inv[1].launch_params)
                  /\ inv[2].launch_params = launch_params[t]
            /\ pc[t] = "done" => Len(inv) = 2
            /\ pc[t] \in {"return", "done"} <=> Len(inv) = 2

\* C1 witness: a call has returned after its two invocations
C1_Witness ==
    /\ pc[1] = "done"
    /\ Len(invocations[1]) = 2
    /\ invocations[1][2].configure_params = FALSE

\* the calls that have received their (seed, offset) pair
Advanced(t) == launch_params[t].params.philox_args.seed # "unset"

\* C2: of two dropout-active calls on the shared generator, the one whose counter
\* advance is serialized second receives an offset at or past the first one's
\* offset plus the first one's elts_per_thread, under every interleaving.
C2_OffsetsDisjoint ==
    \A i, j \in 1..Len(rngOrder) :
        (i < j /\ Advanced(rngOrder[i]) /\ Advanced(rngOrder[j])) =>
            launch_params[rngOrder[j]].params.philox_args.offset
                >= launch_params[rngOrder[i]].params.philox_args.offset
                   + launch_params[rngOrder[i]].elts_per_thread

\* C2 witness: both threads made a dropout-active call and both received an offset
C2_Witness ==
    /\ \A t \in Threads : args[t].dropout_p > 0 /\ Advanced(t) /\ pc[t] = "done"
    /\ Len(rngOrder) = 2

\* C3 as written: a call that failed with a precondition violation has allocated
\* none of the output, saved-intermediate, mask, mean and inverse-stddev buffers.
C3_NothingAllocatedAtFailure ==
    \A t \in Threads :
        (pc[t] = "failed" /\ err[t].kind = "precondition") => bufs[t] = NoBufs

\* C3 amended: every precondition but the one on the dropout probability is
\* enforced before any allocation; the check dropout_p < 1 (line 182) fails after
\* the output, mean and inverse-stddev buffers (and the saved and mask buffers the
\* call needs) were allocated, and before any launcher is resolved or invoked.
C3_ChecksBeforeAllocation ==
    \A t \in Threads :
        (pc[t] = "failed" /\ err[t].kind = "precondition") =>
            IF err[t].line = 182
            THEN /\ args[t].dropout_p >= One
                 /\ bufs[t].z.defined /\ bufs[t].mu.defined /\ bufs[t].rsigma.defined
                 /\ bufs[t].dmask.defined
                 /\ ~bufs[t].workspace.defined /\ ~bufs[t].barrier.defined
                 /\ launcher[t] = NoLauncher
                 /\ invocations[t] = <<>>
            ELSE bufs[t] = NoBufs

\* C3 witness: a call failed the epsilon check with nothing allocated
C3_Witness ==
    /\ pc[1] = "failed"
    /\ err[1] = Failure("precondition", 160)
    /\ args[1].epsilon < 0
    /\ bufs[1] = NoBufs

\* C4: a call that supplies exactly one of x0_subset and z_subset fails with a
\* precondition violation and never reaches the launcher.
C4_GatherScatterTogether ==
    \A t \in Threads :
        (pc[t] # "idle" /\ args[t].x0_subset_.has_value # args[t].z_subset_.has_value) =>
            /\ invocations[t] = <<>>
            /\ pc[t] # "done"
            /\ pc[t] = "failed" => err[t].kind = "precondition"

\* C5: a call whose hidden size is not a positive multiple of 8 up to 8192, whose
\* dropout probability is >= 1 or whose epsilon is negative fails with a
\* precondition violation; a call within all three ranges is not rejected by the
\* range checks.
C5_RangeChecks ==
    \A t \in Threads :
        pc[t] \in {"done", "failed"} =>
            LET a == args[t]
                h == numel(a.gamma)
                inRange == /\ h > 0 /\ h % 8 = 0 /\ h <= 8192
                           /\ a.dropout_p < One
                           /\ a.epsilon >= 0
            IN  /\ ~inRange => (pc[t] = "failed" /\ err[t].kind = "precondition")
                /\ inRange => ~(pc[t] = "failed" /\ err[t].line \in {159, 160, 182})

\* the six conditions of the saved-intermediate decision, from the call's arguments
NeedsSaved(a) ==
    \/ a.residual_.has_value
    \/ a.dropout_p > 0
    \/ a.rowscale_.has_value
    \/ a.colscale_.has_value
    \/ a.x0_subset_.has_value
    \/ a.x0.dtype # (IF a.residual_.has_value THEN a.residual_.value.dtype
                     ELSE IF a.residual_in_fp32 THEN "fp32" ELSE a.x0.dtype)

\* C6: in every valid call the saved-intermediate buffer is allocated and its
\* handle passed as params.x exactly when one of the six conditions holds;
\* otherwise the returned saved buffer is empty and params.x is null.
C6_SavedBufferDecision ==
    \A t \in Threads :
        pc[t] \in PastSetParams =>
            /\ bufs[t].x.defined <=> NeedsSaved(args[t])
            /\ (launch_params[t].params.x = "x") <=> NeedsSaved(args[t])
            /\ ~NeedsSaved(args[t]) => launch_params[t].params.x = Null
            /\ pc[t] = "done" => (Returned(t)[2].defined <=> NeedsSaved(args[t]))
            /\ \A i \in 1..Len(invocations[t]) :
                  (invocations[t][i].launch_params.params.x = "x") <=> NeedsSaved(args[t])

\* C6 witness: a call returned whose only reason to save is the precision
\* mismatch between input and residual
C6_Witness ==
    /\ pc[1] = "done"
    /\ ~args[1].residual_.has_value /\ args[1].dropout_p = 0
    /\ ~args[1].rowscale_.has_value /\ ~args[1].colscale_.has_value
    /\ ~args[1].x0_subset_.has_value
    /\ args[1].x0.dtype = "fp16" /\ args[1].residual_in_fp32
    /\ Returned(1)[2].defined


\* the rounding the claim states: the next multiple of 256 up to 1536, of 512 up
\* to 3072, of 1024 above
Granularity(h) == IF h <= 1536 THEN 256 ELSE IF h <= 3072 THEN 512 ELSE 1024
Bucket(h) ==
    CHOOSE b \in {Granularity(h) * k : k \in 1..(8192 \div Granularity(h))} :
        b >= h /\ b - Granularity(h) < h

\* C7: for supported precisions and a hidden size that is a positive multiple of
\* 8 up to 8192, the launcher the call uses is the registry entry stored under
\* get_key(types, rounded hidden size) and under no other key; the call fails
\* with the unsupported-configuration error exactly when the registry has no
\* entry for that key.
C7_ExactRegistryEntry ==
    \A t \in Threads :
        LET a == args[t]
            h == numel(a.gamma)
            types == << a.gamma.dtype,
                        a.x0.dtype,
                        IF a.residual_.has_value THEN a.residual_.value.dtype
                        ELSE IF a.residual_in_fp32 THEN "fp32" ELSE a.x0.dtype,
                        a.x0.dtype,
                        "fp32" >>
        IN  ( /\ pc[t] \in PastResolve \cup {"failed"}
              /\ pc[t] = "failed" => err[t].line \in {43, 65}
              /\ \A i \in 1..5 : types[i] \in Supported
              /\ h > 0 /\ h % 8 = 0 /\ h <= 8192 ) =>
                LET key == get_key(types[1], types[2], types[3], types[4], types[5],
                                   ToWord(Bucket(h), 4))
                    entries == {e \in FWD_FUNCS : e.key = key}
                IN  /\ pc[t] \in PastResolve =>
                          /\ entries # {}
                          /\ \A e \in entries : e.launcher = launcher[t]
                          /\ \A e \in FWD_FUNCS : e.launcher = launcher[t] => e.key = key
                    /\ pc[t] = "failed" =>
                          /\ err[t].kind = "unsupported_config"
                          /\ entries = {}

\* C7 witness: a call with hidden size 1544 runs on the launcher registered for 2048
C7_Witness ==
    /\ pc[1] = "done"
    /\ numel(args[1].gamma) = 1544
    /\ launcher[1].hidden_size = 2048
    /\ launcher[1].itype = args[1].x0.dtype

\* the state of the scratch buffers that the execute phase received
ScratchAllocated(exec) ==
    /\ exec.bufs.barrier =
          [defined |-> TRUE, sizes |-> <<exec.launch_params.barrier_size>>,
           dtype |-> "int32", zeroed |-> TRUE]
    /\ exec.bufs.workspace.defined
    /\ exec.bufs.workspace.sizes = <<exec.launch_params.workspace_bytes>>
    /\ exec.bufs.workspace.dtype = "int8"
    /\ exec.launch_params.params.barrier = "barrier"
    /\ exec.launch_params.params.workspace = "workspace"

ScratchAbsent(exec) ==
    /\ ~exec.bufs.barrier.defined
    /\ ~exec.bufs.workspace.defined
    /\ exec.launch_params.params.barrier = Null
    /\ exec.launch_params.params.workspace = Null

\* what the query phase reported, as the execute phase sees it
ReportsKept(t) ==
    \A i \in 1..Len(invocations[t]) :
        ~invocations[t][i].configure_params =>
            /\ invocations[t][i].launch_params.barrier_size = launch_params[t].barrier_size
            /\ invocations[t][i].launch_params.workspace_bytes = launch_params[t].workspace_bytes

=============================================================================
